---- MODULE Spec2Model ----
(***************************************************************************)
(* A model of src/src/EventSource.js: the polling EventSource built on     *)
(* XMLHttpRequest, its incremental frame parser and its delta reassembly.  *)
(*                                                                         *)
(* Text.  A response text is a sequence of units.  A unit is either one    *)
(* character that the code looks at on its own ("\r", "\n", " ") or a run  *)
(* of characters holding no white space that the code only ever handles    *)
(* whole: the field prefixes "event:", "data:", "id:" and the words that   *)
(* follow them (an event name, a JSON document, an id).  Offsets count     *)
(* units; they are in the same order as the character offsets of the code. *)
(* Dispatched texts (delta.text, the data of message and close events) are *)
(* real strings, concatenated with \o as += does.                          *)
(***************************************************************************)
EXTENDS Integers, Sequences, FiniteSets, TLC

---------------------------------------------------------------------------
(* Bounds of the model.                                                    *)

\* requests (XMLHttpRequest objects) one connection may create
MaxRequests == 2
\* frames of a response body drawn for the parser specification
MaxFrames == 2

---------------------------------------------------------------------------
(* Program constants.                                                      *)

CRLF == <<"\r", "\n">>
LF == <<"\n">>
CR == <<"\r">>
null == <<>>

\* XMLHttpRequest ready states, XMLReadyStateMap
UNSENT == 0
OPENED == 1
HEADERS_RECEIVED == 2
LOADING == 3
DONE == 4

\* the event names _processMessage knows
IgnoredEvents == {"ping", "message_delta", "content_block_stop"}

---------------------------------------------------------------------------
(* String primitives of the host language, on sequences of units.          *)

WhiteSpace == {" ", "\r", "\n", "\t"}

\* String.prototype.includes
Includes(s, sub) ==
  \E i \in 1..(Len(s) - Len(sub) + 1) : SubSeq(s, i, i + Len(sub) - 1) = sub

\* String.prototype.indexOf: 0-based, -1 when absent
IndexOf(s, sub) ==
  LET hits == {i \in 1..(Len(s) - Len(sub) + 1) : SubSeq(s, i, i + Len(sub) - 1) = sub}
  IN IF hits = {} THEN -1 ELSE (CHOOSE i \in hits : \A j \in hits : i <= j) - 1

\* String.prototype.lastIndexOf: 0-based, -1 when absent
LastIndexOf(s, sub) ==
  LET hits == {i \in 1..(Len(s) - Len(sub) + 1) : SubSeq(s, i, i + Len(sub) - 1) = sub}
  IN IF hits = {} THEN -1 ELSE (CHOOSE i \in hits : \A j \in hits : i >= j) - 1

\* String.prototype.substring(start, end): 0-based, end exclusive
Substring(s, start, end) == SubSeq(s, start + 1, end)

\* String.prototype.split(sep), sep not empty
RECURSIVE Split(_, _)
Split(s, sep) ==
  LET i == IndexOf(s, sep)
  IN IF i = -1 THEN <<s>>
     ELSE <<SubSeq(s, 1, i)>> \o Split(SubSeq(s, i + Len(sep) + 1, Len(s)), sep)

\* String.prototype.trim
RECURSIVE Trim(_)
Trim(s) ==
  IF s = <<>> THEN s
  ELSE IF Head(s) \in WhiteSpace THEN Trim(Tail(s))
  ELSE IF s[Len(s)] \in WhiteSpace THEN Trim(SubSeq(s, 1, Len(s) - 1))
  ELSE s

\* String.prototype.startsWith, for a prefix that is one unit
StartsWith(s, unit) == s # <<>> /\ Head(s) = unit

\* JSON.parse of a data fragment: ok is FALSE where JSON.parse throws; text is
\* jsonData.delta?.text, "" when the document has none.  A fragment of
\* several units (words separated by white space) is no JSON document here.
JSONParse(dataItem) ==
  IF Len(dataItem) # 1 THEN [ok |-> FALSE, text |-> ""]
  ELSE CASE dataItem[1] = "{\"delta\":{\"text\":\"Hel\"}}" -> [ok |-> TRUE, text |-> "Hel"]
         [] dataItem[1] = "{\"delta\":{\"text\":\"lo\"}}" -> [ok |-> TRUE, text |-> "lo"]
         [] dataItem[1] = "{\"delta\":{\"text\":\"Done\"}}" -> [ok |-> TRUE, text |-> "Done"]
         [] dataItem[1] = "{}" -> [ok |-> TRUE, text |-> ""]
         [] OTHER -> [ok |-> FALSE, text |-> ""]

---------------------------------------------------------------------------
(* The connection.                                                         *)

VARIABLES
  status,               \* this.status
  lineEndingCharacter,  \* this.lineEndingCharacter, null until detected
  lastIndexProcessed,   \* this._lastIndexProcessed
  xhr,                  \* this._xhr: index into xhrs, 0 for null
  pollTimer,            \* this._pollTimer: a timer id, 0 for null
  eventHandlers,        \* this.eventHandlers: category -> sequence of listeners
  options,              \* this.timeout and this.interval (pollingInterval)
  xhrs,                 \* every XMLHttpRequest created so far, in creation order
  timers,               \* the host's pending setTimeout timers
  server,               \* the responses the server may give
  log,                  \* history: the events dispatched in this cycle, in order
  processed,            \* history: frames given to _processMessage in this cycle
  closeMark,            \* history: the cycle and the length of the log when the
                        \* close() that closed the connection returned
  calls,                \* history: the listener calls of this cycle, in order,
                        \* each <<index in log, index of the listener>>
  uncaught              \* history: the last task ended by an exception that
                        \* no code of the connection caught

vars == <<status, lineEndingCharacter, lastIndexProcessed, xhr, pollTimer,
          eventHandlers, options, xhrs, timers, server, log,
          processed, closeMark, calls, uncaught>>

\* The program state as one value, for the operators that model methods.
\* exc tells that an exception is propagating: every operator that models
\* statements in sequence skips those that follow the statement that threw.
Cur ==
  [status |-> status, lineEndingCharacter |-> lineEndingCharacter,
   lastIndexProcessed |-> lastIndexProcessed, xhr |-> xhr,
   pollTimer |-> pollTimer, eventHandlers |-> eventHandlers,
   options |-> options, xhrs |-> xhrs, timers |-> timers,
   log |-> log, processed |-> processed,
   closeMark |-> closeMark, calls |-> calls, exc |-> FALSE]

\* The task's result becomes the program state.
Becomes(result) ==
  \E s \in {result} :
    /\ status' = s.status
    /\ lineEndingCharacter' = s.lineEndingCharacter
    /\ lastIndexProcessed' = s.lastIndexProcessed
    /\ xhr' = s.xhr
    /\ pollTimer' = s.pollTimer
    /\ eventHandlers' = s.eventHandlers
    /\ options' = s.options
    /\ xhrs' = s.xhrs
    /\ timers' = s.timers
    /\ log' = s.log
    /\ processed' = s.processed
    /\ closeMark' = s.closeMark
    /\ calls' = s.calls
    /\ uncaught' = s.exc
    /\ UNCHANGED server

\* Statements in sequence: v, the state after the first statement, is
\* computed once and handed to Rest, the statements that follow.
Then(v, Rest(_)) == CHOOSE r \in {Rest(x) : x \in {v}} : TRUE

NoMark == [at |-> -1, req |-> 0]

---------------------------------------------------------------------------
(* Frame parser.                                                           *)

EmptyMessage == [event |-> <<>>, data |-> <<>>, id |-> <<>>]

\* One pass of the loop over the lines: acc holds currentMessage and messages.
\* An event or id that is undefined, null or "" is <<>>: the code only tests
\* them for truthiness.
ParseLine(acc, line) ==
  LET trimmedLine == Trim(line)
      cur == acc.currentMessage
  IN IF trimmedLine = <<>>
       THEN IF Len(cur.data) > 0 \/ cur.event # <<>>
              THEN [currentMessage |-> EmptyMessage,
                    messages |-> Append(acc.messages, cur)]
              ELSE acc
     ELSE IF StartsWith(trimmedLine, "event:")
       THEN [acc EXCEPT !.currentMessage.event = Trim(Tail(trimmedLine))]
     ELSE IF StartsWith(trimmedLine, "data:")
       THEN [acc EXCEPT !.currentMessage.data = Append(@, Trim(Tail(trimmedLine)))]
     ELSE IF StartsWith(trimmedLine, "id:")
       THEN [acc EXCEPT !.currentMessage.id = Trim(Tail(trimmedLine))]
     ELSE acc

RECURSIVE ParseLines(_, _)
ParseLines(acc, lines) ==
  IF lines = <<>> THEN acc
  ELSE ParseLines(ParseLine(acc, Head(lines)), Tail(lines))

_parseSSEMessages(data, lineEnding) ==
  ParseLines([currentMessage |-> EmptyMessage, messages |-> <<>>],
             Split(data, lineEnding)).messages

_detectNewlineChar(response) ==
  IF Includes(response, CRLF) THEN CRLF
  ELSE IF Includes(response, LF) THEN LF
  ELSE IF Includes(response, CR) THEN CR
  ELSE null

_getLastDoubleNewlineIndex(response, lineEnding) ==
  LET doubleLineEndingCharacter == lineEnding \o lineEnding
      lastIndex == LastIndexOf(response, doubleLineEndingCharacter)
  IN IF lastIndex = -1 THEN -1
     ELSE lastIndex + Len(doubleLineEndingCharacter)

---------------------------------------------------------------------------
(* Event payloads.  One record shape for all of them: type is the          *)
(* payload's type field; hasData tells {type: "close", data} from          *)
(* {type: "close"}; message, xhrStatus, xhrState are those of an error     *)
(* payload (-1 for null); id is lastEventId (<<>> for null).               *)

Payload(type) ==
  [type |-> type, data |-> "", hasData |-> FALSE, message |-> <<>>,
   xhrStatus |-> -1, xhrState |-> -1, id |-> <<>>]

\* The categories the constructor registers.
Categories == {"open", "message", "content_block_start", "error", "close"}

\* What a listener does when called: "noop" returns, "close" calls close(),
\* "throw" throws.
ListenerKinds == {"noop", "close", "throw"}

---------------------------------------------------------------------------
(* Dispatch, close() and the host's XMLHttpRequest.abort(), which call     *)
(* each other: a listener may call close(), close() dispatches and aborts, *)
(* abort() fires onreadystatechange.                                       *)

\* The fields of a request that has no response: status 0, no text, no
\* headers.  body and cuts are the transport's: the text the server sends and
\* the lengths at which the transport may hand over a part of it; live tells
\* whether the transport may still report on the request.
NewXhrTemplate ==
  [readyState |-> UNSENT, status |-> 0, responseText |-> <<>>,
   contentType |-> "", body |-> <<>>, cuts |-> {}, live |-> TRUE]

RECURSIVE dispatch(_, _, _, _)
RECURSIVE close(_)
RECURSIVE OnReadyStateChange(_)

\* clearTimeout(id): a timer that has fired or was never set is not pending.
clearTimeout(s, id) ==
  [s EXCEPT !.timers = {t \in @ : t.id # id}]

\* XMLHttpRequest.abort() of request i.  A request that was sent and is not
\* done becomes DONE with its response cleared, fires readystatechange, and
\* is then reset to UNSENT; a done one is reset without an event.
abort(s, i) ==
  LET cleared == [NewXhrTemplate EXCEPT !.live = FALSE]
  IN IF s.xhrs[i].readyState \in {OPENED, HEADERS_RECEIVED, LOADING}
       THEN Then(OnReadyStateChange(
                   [s EXCEPT !.xhrs[i] = [cleared EXCEPT !.readyState = DONE]]),
                 LAMBDA s1 : [s1 EXCEPT !.xhrs[i].readyState = UNSENT])
       ELSE [s EXCEPT !.xhrs[i] = [cleared EXCEPT !.readyState = UNSENT]]

\* One listener, called.
CallListener(s, listener) ==
  CASE listener = "close" -> close(s)
    [] listener = "throw" -> [s EXCEPT !.exc = TRUE]
    [] OTHER -> s

\* The loop of dispatch taking the listeners from the last registered to
\* the first.
RECURSIVE CallListenersLastFirst(_, _, _, _)
CallListenersLastFirst(s, handlers, k, j) ==
  IF j > Len(handlers) THEN s
  ELSE Then(CallListener([s EXCEPT !.calls = Append(@, <<k, Len(handlers) + 1 - j>>)],
                         handlers[Len(handlers) + 1 - j]),
            LAMBDA s1 : IF s1.exc THEN s1
                        ELSE CallListenersLastFirst(s1, handlers, k, j + 1))

\* The loop of dispatch over the listeners of one category, from the j-th
\* on; k is history: the index in log of the event being dispatched.  An
\* exception of a listener ends the loop.
RECURSIVE CallListeners(_, _, _, _)
CallListeners(s, handlers, k, j) ==
  IF j > Len(handlers) THEN s
  ELSE Then(CallListener([s EXCEPT !.calls = Append(@, <<k, j>>)], handlers[j]),
            LAMBDA s1 : IF s1.exc THEN s1
                        ELSE CallListeners(s1, handlers, k, j + 1))

\* dispatch(type, data); frame is history: the frame being processed, 0 if none.
dispatch(s, type, data, frame) ==
  IF type \notin DOMAIN s.eventHandlers THEN s
  ELSE CallListeners(
         [s EXCEPT !.log = Append(@, [cat |-> type, payload |-> data,
                                      req |-> s.xhr, frame |-> frame])],
         s.eventHandlers[type], Len(s.log) + 1, 1)

close(s) ==
  Then(IF s.status # "CLOSED"
         THEN dispatch([s EXCEPT !.status = "CLOSED"], "close", Payload("close"), 0)
         ELSE s,
       LAMBDA s1 :
         IF s1.exc THEN s1
         ELSE Then(clearTimeout(s1, s1.pollTimer),
                   LAMBDA s2 :
                     Then(IF s2.xhr # 0 THEN abort(s2, s2.xhr) ELSE s2,
                          LAMBDA s3 :
                            IF s.status # "CLOSED"
                              THEN [s3 EXCEPT !.closeMark =
                                      [at |-> Len(s3.log), req |-> s3.xhr]]
                              ELSE s3)))

_handleError(s, type, message, xhrStatus, xhrState) ==
  dispatch([s EXCEPT !.status = "ERROR"], "error",
           [Payload(type) EXCEPT !.message = message, !.xhrStatus = xhrStatus,
                                 !.xhrState = xhrState], 0)

\* The id setTimeout returns: one that no pending timer has and that the
\* program does not hold.  (The host never gives an id twice; the program
\* can tell ids apart only by clearTimeout(this._pollTimer).)
FreshId(s) ==
  LET used == {t.id : t \in s.timers} \cup {s.pollTimer}
  IN CHOOSE n \in 1..(Cardinality(used) + 1) :
       n \notin used /\ \A m \in 1..(n - 1) : m \in used

\* setTimeout(callback, time); req is history: the cycle that set the timer.
setTimeout(s, kind) ==
  [s EXCEPT !.timers = @ \cup {[id |-> FreshId(s), kind |-> kind, req |-> s.xhr]}]

\* _pollAgain without allowZero: a delay of 0 sets no timer.
PollAgainSkippingZero(s, time, allowZero) ==
  IF time > 0
    THEN [setTimeout(s, "poll") EXCEPT !.pollTimer = FreshId(s)]
    ELSE s

_pollAgain(s, time, allowZero) ==
  IF time > 0 \/ allowZero
    THEN [setTimeout(s, "poll") EXCEPT !.pollTimer = FreshId(s)]
    ELSE s

---------------------------------------------------------------------------
(* Delta reassembly.                                                       *)

Is(event, name) == event = <<name>>

\* One pass of the loop over message.data: r holds the state s and currentText.
ProcessDataItem(r, message, dataItem, frame) ==
  LET jsonData == JSONParse(dataItem)
  IN IF ~jsonData.ok THEN r
     ELSE IF Is(message.event, "content_block_delta")
       THEN [r EXCEPT !.currentText = @ \o jsonData.text]
     ELSE IF Is(message.event, "message_start") \/ Is(message.event, "content_block_start")
       THEN [r EXCEPT !.currentText = ""]
     ELSE IF Is(message.event, "message_stop")
       THEN Then(dispatch(r.s, "close",
                          [Payload("close") EXCEPT !.data = r.currentText,
                                                   !.hasData = TRUE], frame),
                 LAMBDA d :
                   IF d.exc
                     THEN [s |-> [d EXCEPT !.exc = FALSE],
                           currentText |-> r.currentText]
                     ELSE [s |-> d, currentText |-> ""])
     ELSE r

\* The loop with JSON.parse outside the try: the first fragment that does
\* not parse ends the loop.
RECURSIVE ProcessDataEndingAtBadItem(_, _, _, _)
ProcessDataEndingAtBadItem(r, message, items, frame) ==
  IF items = <<>> \/ ~JSONParse(Head(items)).ok THEN r
  ELSE ProcessDataEndingAtBadItem(ProcessDataItem(r, message, Head(items), frame),
                                  message, Tail(items), frame)

RECURSIVE ProcessData(_, _, _, _)
ProcessData(r, message, items, frame) ==
  IF items = <<>> THEN r
  ELSE Then(ProcessDataItem(r, message, Head(items), frame),
            LAMBDA r1 : ProcessData(r1, message, Tail(items), frame))

_processMessage(s, message, frame) ==
  IF message.event = <<>>
     \/ \E e \in IgnoredEvents : Is(message.event, e)
    THEN s
    ELSE Then(ProcessData([s |-> s, currentText |-> ""], message,
                          message.data, frame),
              LAMBDA r :
                IF r.currentText # "" /\ Is(message.event, "content_block_delta")
                  THEN dispatch(r.s, "message",
                                [Payload("message") EXCEPT !.data = r.currentText,
                                                           !.hasData = TRUE,
                                                           !.id = message.id], frame)
                  ELSE r.s)

RECURSIVE ProcessMessages(_, _)
ProcessMessages(s, messages) ==
  IF messages = <<>> \/ s.exc THEN s
  ELSE Then(_processMessage([s EXCEPT !.processed = Append(@, Head(messages))],
                            Head(messages), Len(s.processed) + 1),
            LAMBDA s1 : ProcessMessages(s1, Tail(messages)))

\* _handleEvent without line 226: the offset is never advanced.
HandleEventKeepingOffset(s, response) ==
  LET detected == _detectNewlineChar(response)
      s1 == IF s.lineEndingCharacter = null
              THEN [s EXCEPT !.lineEndingCharacter = detected]
              ELSE s
      indexOfDoubleNewline ==
        _getLastDoubleNewlineIndex(response, s1.lineEndingCharacter)
  IN IF s1.lineEndingCharacter = null THEN s
     ELSE IF indexOfDoubleNewline <= s1.lastIndexProcessed THEN s1
     ELSE ProcessMessages(
            s1,
            _parseSSEMessages(
              Substring(response, s1.lastIndexProcessed, indexOfDoubleNewline),
              s1.lineEndingCharacter))

_handleEvent(s, response) ==
  LET detected == _detectNewlineChar(response)
      s1 == IF s.lineEndingCharacter = null
              THEN [s EXCEPT !.lineEndingCharacter = detected]
              ELSE s
      indexOfDoubleNewline ==
        _getLastDoubleNewlineIndex(response, s1.lineEndingCharacter)
  IN IF s1.lineEndingCharacter = null THEN s
     ELSE IF indexOfDoubleNewline <= s1.lastIndexProcessed THEN s1
     ELSE ProcessMessages(
            [s1 EXCEPT !.lastIndexProcessed = indexOfDoubleNewline],
            _parseSSEMessages(
              Substring(response, s1.lastIndexProcessed, indexOfDoubleNewline),
              s1.lineEndingCharacter))

---------------------------------------------------------------------------
(* open() and the callbacks it installs.  The callbacks close over this,   *)
(* not over the request they were installed on: each reads this._xhr when  *)
(* it runs.                                                                *)

\* this._xhr.onreadystatechange
OnReadyStateChange(s) ==
  IF s.status = "CLOSED" THEN s
  ELSE
    LET i == s.xhr
        x == s.xhrs[i]
    IN IF x.readyState \notin {DONE, LOADING} THEN s
       ELSE IF x.status >= 200 /\ x.status < 400
         THEN Then(IF s.status = "CONNECTING"
                     THEN IF x.contentType # "application/json"
                            THEN dispatch([s EXCEPT !.status = "OPEN"],
                                          "open", Payload("open"), 0)
                            ELSE _handleError([s EXCEPT !.status = "OPEN"],
                                              "error", x.responseText, -1, -1)
                     ELSE s,
                   LAMBDA s1 :
                     IF s1.exc THEN s1
                     ELSE Then(IF s1.xhrs[i].contentType # "application/json"
                                 THEN _handleEvent(s1, s1.xhrs[i].responseText)
                                 ELSE s1,
                               LAMBDA s2 :
                                 IF s2.exc THEN s2
                                 ELSE IF s2.xhrs[i].readyState = DONE
                                   THEN _pollAgain(s2, s2.options.pollingInterval,
                                                   FALSE)
                                   ELSE s2))
       ELSE IF x.status # 0
         THEN _handleError(s, "error", x.responseText, x.status, x.readyState)
       ELSE s

\* this._xhr.onerror
OnError(s) ==
  IF s.status = "CLOSED" THEN s
  ELSE LET x == s.xhrs[s.xhr]
       IN _handleError(s, "error", x.responseText, x.status, x.readyState)

\* The callback without line 174: the error is dispatched and close() is
\* not called.
OnTimeoutWithoutClose(s) ==
  IF s.xhrs[s.xhr].readyState = LOADING
    THEN dispatch(s, "error", Payload("timeout"), 0)
    ELSE s

\* the callback of the setTimeout at the end of open()
OnTimeout(s) ==
  IF s.xhrs[s.xhr].readyState = LOADING
    THEN Then(dispatch(s, "error", Payload("timeout"), 0),
              LAMBDA s1 : IF s1.exc THEN s1 ELSE close(s1))
    ELSE s

\* new XMLHttpRequest(), open(method, url, true) and send(): a request that
\* is opened and sent.
NewXhr == [NewXhrTemplate EXCEPT !.readyState = OPENED]

\* A request this._xhr no longer refers to.  No code can read it any more
\* (every callback reads this._xhr); what is left of it is that, while the
\* transport works on it, it still fires the callbacks installed on it.
Unreferenced(x) ==
  [NewXhr EXCEPT !.live = x.live,
                 !.readyState = IF x.live THEN x.readyState ELSE UNSENT]

\* open() without line 73: the offset of the previous request is kept.
OpenKeepingOffset(s) ==
  LET s1 == [s EXCEPT !.status = "CONNECTING",
                      !.processed = <<>>,
                      !.log = <<>>,
                      !.calls = <<>>,
                      !.xhrs = Append([k \in 1..Len(s.xhrs) |-> Unreferenced(s.xhrs[k])],
                                      NewXhr),
                      !.xhr = Len(s.xhrs) + 1]
  IN IF s1.options.headers = "invalid"
       THEN _handleError([s1 EXCEPT !.xhrs[s1.xhr].live = FALSE],
                         "exception", <<"e.message">>, -1, -1)
     ELSE IF s1.options.timeout > 0 THEN setTimeout(s1, "timeout")
     ELSE s1

\* setRequestHeader throws for a header of options.headers that is not a
\* valid one: the request is opened and never sent, and the catch of open()
\* takes the exception.
open(s) ==
  LET s1 == [s EXCEPT !.status = "CONNECTING",
                      !.lastIndexProcessed = 0,
                      !.processed = <<>>,
                      !.log = <<>>,
                      !.calls = <<>>,
                      !.xhrs = Append([k \in 1..Len(s.xhrs) |-> Unreferenced(s.xhrs[k])],
                                      NewXhr),
                      !.xhr = Len(s.xhrs) + 1]
  IN IF s1.options.headers = "invalid"
       THEN _handleError([s1 EXCEPT !.xhrs[s1.xhr].live = FALSE],
                         "exception", <<"e.message">>, -1, -1)
     ELSE IF s1.options.timeout > 0 THEN setTimeout(s1, "timeout")
     ELSE s1

---------------------------------------------------------------------------
(* Response bodies.                                                        *)

JHel == "{\"delta\":{\"text\":\"Hel\"}}"
JLo == "{\"delta\":{\"text\":\"lo\"}}"
JDone == "{\"delta\":{\"text\":\"Done\"}}"
JEmpty == "{}"
JBad == "{not valid json}"

\* The lines of one frame as the server writes it: the event line, the data
\* lines, the id line, then the blank line.  sp is the text between a field
\* prefix and its value (nothing, or a space).
FrameLines(f, sp) ==
  (IF f.event = "" THEN <<>> ELSE << <<"event:">> \o sp \o <<f.event>> >>)
  \o [k \in 1..Len(f.data) |-> <<"data:">> \o sp \o <<f.data[k]>>]
  \o (IF f.id = "" THEN <<>> ELSE << <<"id:">> \o sp \o <<f.id>> >>)
  \o << <<>> >>

RECURSIVE AllLines(_, _)
AllLines(frames, sp) ==
  IF frames = <<>> THEN <<>>
  ELSE FrameLines(Head(frames), sp) \o AllLines(Tail(frames), sp)

\* The line ending the server writes after line k.  "LF1" is a server that
\* ends its first line with LF and every other line with CRLF.
Styles == {"LF", "CRLF", "CR", "LF1"}

LineEnd(style, k) ==
  CASE style = "LF" -> LF
    [] style = "CRLF" -> CRLF
    [] style = "CR" -> CR
    [] style = "LF1" -> IF k = 1 THEN LF ELSE CRLF

RECURSIVE JoinLines(_, _, _)
JoinLines(lines, style, k) ==
  IF k > Len(lines) THEN <<>>
  ELSE lines[k] \o LineEnd(style, k) \o JoinLines(lines, style, k + 1)

BodyOf(frames, style, sp) == JoinLines(AllLines(frames, sp), style, 1)

F(event, data, id) == [event |-> event, data |-> data, id |-> id]

\* The frames the parser specification draws its bodies from.
FrameKinds ==
  { F("content_block_delta", <<JHel, JLo>>, ""),
    F("content_block_delta", <<JHel, JBad, JLo>>, ""),
    F("content_block_delta", <<JDone>>, "7"),
    F("content_block_start", <<JEmpty>>, ""),
    F("message_stop", <<JBad, JEmpty>>, ""),
    F("ping", <<JEmpty>>, ""),
    F("", <<JHel>>, ""),
    F("", <<>>, "7") }

RECURSIVE SeqsUpTo(_, _)
SeqsUpTo(S, n) ==
  IF n = 0 THEN {<<>>}
  ELSE LET shorter == SeqsUpTo(S, n - 1)
       IN shorter \cup {Append(q, x) : q \in shorter, x \in S}

ParseBodies ==
  {BodyOf(frames, style, <<" ">>) :
     frames \in SeqsUpTo(FrameKinds, MaxFrames), style \in Styles}

EventStream == "text/event-stream"

\* A response: status line, Content-Type, body, and cuts, the lengths at
\* which the transport may hand over a partial body (where the server
\* flushes and the network splits).
Response(st, ct, body, cuts) ==
  [status |-> st, contentType |-> ct, body |-> body, cuts |-> cuts]

\* a transport that may split the body anywhere
AnyCut(body) == 1..Len(body)
\* a server that flushes after each line
LineCuts(body) == {p \in 1..Len(body) : body[p] = "\n"}

\* A JSON document that the server sends instead of a stream, in two parts.
JsonDocument == <<"{\"type\":\"error\",", "\"error\":{\"type\":\"overloaded_error\"}}">>

\* The responses the server of the life-cycle specification may give: a
\* stream of two delta frames, a JSON document, a server error.
TwoDeltas ==
  BodyOf(<<F("content_block_delta", <<JHel>>, ""),
           F("content_block_delta", <<JLo>>, "")>>, "LF", <<>>)

Responses ==
  { Response(200, EventStream, TwoDeltas, LineCuts(TwoDeltas)),
    Response(200, "application/json", JsonDocument, {1}),
    Response(500, "text/plain", <<"oops">>, {}) }

---------------------------------------------------------------------------
(* The state after construction.                                           *)

\* The listeners the application has registered: none that acts (two of
\* them for message), a message listener that calls close(), or a message
\* listener that throws, registered before one that does not.
Recording ==
  [c \in Categories |-> IF c = "message" THEN <<"noop", "noop">> ELSE <<"noop">>]

ClosingOnMessage ==
  [c \in Categories |-> IF c = "message" THEN <<"close">> ELSE <<"noop">>]

ThrowingOnMessage ==
  [c \in Categories |-> IF c = "message" THEN <<"throw", "noop">> ELSE <<"noop">>]

HandlerConfigs == {Recording, ClosingOnMessage, ThrowingOnMessage}

\* options: timeout (0 is the default: no timeout timer), pollingInterval
\* (0, or the default 5000) and headers (all valid, or one that
\* setRequestHeader rejects).  Time itself is not modelled: a pending timer
\* may fire at any moment.
OptionSets ==
  [timeout : {0, 1000}, pollingInterval : {0, 5000}, headers : {"valid", "invalid"}]

\* options.timeoutBeforeConnection: 0, or the default 500.  The constructor
\* uses it once and nothing reads it afterwards.
ConnectionDelays == {0, 500}

\* The constructor, up to and including _pollAgain(timeoutBeforeConnection, true).
Constructed(opts, timeoutBeforeConnection, handlers) ==
  _pollAgain([status |-> "CONNECTING", lineEndingCharacter |-> null,
              lastIndexProcessed |-> 0, xhr |-> 0, pollTimer |-> 0,
              eventHandlers |-> handlers, options |-> opts, xhrs |-> <<>>,
              timers |-> {}, log |-> <<>>,
              processed |-> <<>>, closeMark |-> NoMark,
              calls |-> <<>>, exc |-> FALSE],
             timeoutBeforeConnection, TRUE)

InitWith(opts, timeoutBeforeConnection, handlers, responses) ==
  LET s == Constructed(opts, timeoutBeforeConnection, handlers)
  IN /\ status = s.status
     /\ lineEndingCharacter = s.lineEndingCharacter
     /\ lastIndexProcessed = s.lastIndexProcessed
     /\ xhr = s.xhr
     /\ pollTimer = s.pollTimer
     /\ eventHandlers = s.eventHandlers
     /\ options = s.options
     /\ xhrs = s.xhrs
     /\ timers = s.timers
     /\ log = s.log
     /\ processed = s.processed
     /\ closeMark = s.closeMark
     /\ calls = s.calls
     /\ uncaught = s.exc
     /\ server = responses

Init ==
  \E opts \in OptionSets, delay \in ConnectionDelays, handlers \in HandlerConfigs :
    InitWith(opts, delay, handlers, Responses)

---------------------------------------------------------------------------
(* Steps.  Each is one task of the event loop, run to completion.          *)

\* A timer set by _pollAgain fires: open().
PollTimerFire(t) ==
  /\ t \in timers /\ t.kind = "poll"
  /\ Len(xhrs) < MaxRequests
  /\ Becomes(open([Cur EXCEPT !.timers = @ \ {t}]))

\* The timer set at the end of open() fires.
TimeoutTimerFire(t) ==
  /\ t \in timers /\ t.kind = "timeout"
  /\ Becomes(OnTimeout([Cur EXCEPT !.timers = @ \ {t}]))

\* The transport has the status line and headers of request i.
XhrHeaders(i, r) ==
  /\ xhrs[i].live /\ xhrs[i].readyState = OPENED
  /\ Becomes(OnReadyStateChange(
       [Cur EXCEPT !.xhrs[i] =
          IF i = xhr
            THEN [@ EXCEPT !.readyState = HEADERS_RECEIVED,
                           !.status = r.status,
                           !.contentType = r.contentType,
                           !.body = r.body,
                           !.cuts = r.cuts]
            ELSE [@ EXCEPT !.readyState = HEADERS_RECEIVED]]))

\* The transport has more of the body of request i: its first n units.
XhrProgress(i, n) ==
  /\ i = xhr
  /\ xhrs[i].live /\ xhrs[i].readyState \in {HEADERS_RECEIVED, LOADING}
  /\ n \in xhrs[i].cuts /\ n > Len(xhrs[i].responseText)
  /\ Becomes(OnReadyStateChange(
       [Cur EXCEPT !.xhrs[i] = [@ EXCEPT !.readyState = LOADING,
                                         !.responseText =
                                           SubSeq(xhrs[i].body, 1, n)]]))

\* Request i is complete: the rest of the body is there.
XhrDone(i) ==
  /\ xhrs[i].live /\ xhrs[i].readyState \in {HEADERS_RECEIVED, LOADING}
  /\ Becomes(OnReadyStateChange(
       [Cur EXCEPT !.xhrs[i] = [@ EXCEPT !.readyState = DONE,
                                         !.responseText = xhrs[i].body,
                                         !.live = FALSE]]))

\* Request i fails in the network: DONE with status 0 and no response; the
\* transport fires readystatechange and then error.
XhrNetworkError(i) ==
  /\ xhrs[i].live
  /\ xhrs[i].readyState \in {OPENED, HEADERS_RECEIVED, LOADING}
  /\ Becomes(Then(OnReadyStateChange(
                    [Cur EXCEPT !.xhrs[i] = [@ EXCEPT !.readyState = DONE,
                                                      !.status = 0,
                                                      !.responseText = <<>>,
                                                      !.contentType = "",
                                                      !.live = FALSE]]),
                  LAMBDA s : OnError(s)))

\* The transport has the first part of the body of a request that this._xhr
\* no longer refers to.
XhrProgressUnreferenced(i) ==
  /\ i # xhr
  /\ xhrs[i].live /\ xhrs[i].readyState = HEADERS_RECEIVED
  /\ Becomes(OnReadyStateChange([Cur EXCEPT !.xhrs[i].readyState = LOADING]))

\* The application calls open().
UserOpen ==
  /\ Len(xhrs) < MaxRequests
  /\ Becomes([open(Cur) EXCEPT !.closeMark = NoMark])

\* The application calls close().
UserClose ==
  Becomes(close(Cur))

Next ==
  \/ \E t \in timers : PollTimerFire(t)
  \/ \E t \in timers : TimeoutTimerFire(t)
  \/ \E i \in 1..Len(xhrs), r \in server : XhrHeaders(i, r)
  \/ \E i \in 1..Len(xhrs) : \E n \in xhrs[i].cuts : XhrProgress(i, n)
  \/ \E i \in 1..Len(xhrs) : XhrProgressUnreferenced(i)
  \/ \E i \in 1..Len(xhrs) : XhrDone(i)
  \/ \E i \in 1..Len(xhrs) : XhrNetworkError(i)
  \/ UserOpen
  \/ UserClose

Spec == Init /\ [][Next]_vars

---------------------------------------------------------------------------
(* The parser specification: one request whose response is any body of     *)
(* ParseBodies, split by the transport at any places.  The application     *)
(* sets no timeout and no polling interval, so the connection makes this   *)
(* one request only, and its listeners only take the events.               *)

ParseInit ==
  \E body \in ParseBodies :
    InitWith([timeout |-> 0, pollingInterval |-> 0, headers |-> "valid"], 0, Recording,
             {Response(200, EventStream, body, AnyCut(body))})

ParseNext ==
  \/ \E t \in timers : PollTimerFire(t)
  \/ \E i \in 1..Len(xhrs), r \in server : XhrHeaders(i, r)
  \/ \E i \in 1..Len(xhrs) : \E n \in xhrs[i].cuts : XhrProgress(i, n)
  \/ \E i \in 1..Len(xhrs) : XhrDone(i)

ParseSpec == ParseInit /\ [][ParseNext]_vars

---------------------------------------------------------------------------
(* Claims.                                                                 *)

\* The text of the request this._xhr refers to, as the latest notification
\* saw it.
CurrentText == IF xhr = 0 THEN <<>> ELSE xhrs[xhr].responseText

\* The length of the part of text that ends with the last doubled line
\* ending nl nl: the frames before it have their blank line, the text after
\* it is an incomplete frame.  0 when no frame is complete.
CompleteLength(text, nl) ==
  LET ends == {p \in (2 * Len(nl))..Len(text) :
                 SubSeq(text, p - 2 * Len(nl) + 1, p) = nl \o nl}
  IN IF ends = {} THEN 0 ELSE CHOOSE p \in ends : \A q \in ends : q <= p

\* A frame without its id.  (The parser's accumulator keeps the id of a block
\* that held nothing else, so the id a frame gets can depend on where the
\* spans were cut; event and data do not.)
EventAndData(messages) ==
  [k \in 1..Len(messages) |-> [event |-> messages[k].event, data |-> messages[k].data]]

Silenced == {"open", "message", "error"}

\* C2: once close() has returned, nothing of category open, message or error
\* is dispatched in the same request cycle: not by the rest of the
\* notification during which a listener called close(), not by a later
\* notification of the request in flight.
C2_NoDispatchAfterClose ==
  closeMark.at >= 0 =>
    \A k \in (closeMark.at + 1)..Len(log) :
      log[k].req = closeMark.req => log[k].cat \notin Silenced

\* C3: after close(), and as long as the application does not call open(),
\* nothing of category open, message or error is dispatched by a later
\* request cycle, which only a timer set before the close can start.
C3_NoDispatchAfterCloseByTimer ==
  closeMark.at >= 0 =>
    \A k \in 1..Len(log) :
      log[k].req # closeMark.req => log[k].cat \notin Silenced

\* C4: CLOSED is terminal, OPEN is entered only from CONNECTING, and
\* CONNECTING is entered only by open(), which creates a request.
C4_StatusTransitions ==
  [][/\ status = "CLOSED" => status' = "CLOSED"
     /\ (status' = "OPEN" /\ status # "OPEN") => status = "CONNECTING"
     /\ (status' = "CONNECTING" /\ status # "CONNECTING") => Len(xhrs') = Len(xhrs) + 1
    ]_vars

PendingPollTimers == {t \in timers : t.kind = "poll"}
InFlight == {i \in 1..Len(xhrs) : xhrs[i].live}

\* C5: a call of close() leaves status CLOSED, no poll timer pending and no
\* request in flight, whatever the status was; it dispatches one close event
\* without payload when the connection was not closed and nothing when it was
\* (so two calls in a row dispatch it once).
C5_CloseIdempotent ==
  [][UserClose =>
       /\ status' = "CLOSED"
       /\ PendingPollTimers' = {}
       /\ InFlight' = {}
       /\ log' = IF status = "CLOSED" THEN log
                 ELSE Append(log, [cat |-> "close", payload |-> Payload("close"),
                                   req |-> xhr, frame |-> 0])
    ]_vars

\* C6: at most one request of the connection is in flight at any time.
C6_OneRequestInFlight == Cardinality(InFlight) <= 1

---------------------------------------------------------------------------
(* Delta reassembly as the specification describes it: one text buffer     *)
(* that lives across frames.                                               *)

\* The buffer after one more parsed fragment of a frame with this event.
BufferAfterItem(buffer, event, dataItem) ==
  LET jsonData == JSONParse(dataItem)
  IN IF ~jsonData.ok THEN buffer
     ELSE IF Is(event, "content_block_delta") THEN buffer \o jsonData.text
     ELSE IF Is(event, "message_start") \/ Is(event, "content_block_start")
             \/ Is(event, "message_stop") THEN ""
     ELSE buffer

RECURSIVE BufferAfterItems(_, _, _)
BufferAfterItems(buffer, event, items) ==
  IF items = <<>> THEN buffer
  ELSE BufferAfterItems(BufferAfterItem(buffer, event, Head(items)), event, Tail(items))

\* The buffer after these frames, from an empty buffer.
RECURSIVE BufferAfter(_)
BufferAfter(frames) ==
  IF frames = <<>> THEN ""
  ELSE LET last == frames[Len(frames)]
           before == BufferAfter(SubSeq(frames, 1, Len(frames) - 1))
       IN IF last.event = <<>> \/ \E e \in IgnoredEvents : Is(last.event, e)
            THEN before
            ELSE BufferAfterItems(before, last.event, last.data)

\* C7: the first close event a message_stop frame dispatches carries the
\* text accumulated from the frames before it.
C7_StopCarriesAccumulatedText ==
  \A k \in 1..Len(log) :
    (/\ log[k].cat = "close" /\ log[k].payload.hasData
     /\ \A j \in 1..(k - 1) : log[j].frame # log[k].frame)
    => log[k].payload.data = BufferAfter(SubSeq(processed, 1, log[k].frame - 1))

\* C8: the data of a message event is the text accumulated since the last
\* message_start, content_block_start or message_stop, over all the frames
\* up to and including the one that dispatches it.
C8_MessageCarriesAccumulatedText ==
  \A k \in 1..Len(log) :
    log[k].cat = "message"
    => log[k].payload.data = BufferAfter(SubSeq(processed, 1, log[k].frame))

ParsesAsJSON(dataItem) == JSONParse(dataItem).ok

\* A frame without the fragments that are not valid JSON.
WithoutBadFragments(message) ==
  [message EXCEPT !.data = SelectSeq(@, ParsesAsJSON)]

\* The payloads dispatched for frame k, in order.
RECURSIVE PayloadsFor(_, _)
PayloadsFor(entries, k) ==
  IF entries = <<>> THEN <<>>
  ELSE (IF Head(entries).frame = k THEN <<Head(entries).payload>> ELSE <<>>)
       \o PayloadsFor(Tail(entries), k)

\* C10: for every frame given to _processMessage, the events dispatched for
\* it are those _processMessage dispatches for the same frame with its
\* unparseable fragments taken out: a bad fragment dispatches nothing and
\* does not disturb the fragments before and after it.
C10_BadFragmentSkipped ==
  \A k \in 1..Len(processed) :
    PayloadsFor(log, k) =
      PayloadsFor(_processMessage([Cur EXCEPT !.log = <<>>],
                                  WithoutBadFragments(processed[k]), k).log, k)

\* C10 witness: a frame with an unparseable fragment between two good ones
\* has been processed, and its message carries the text of both.
C10_Witness ==
  \E k \in 1..Len(processed) :
    /\ processed[k].data = <<<<JHel>>, <<JBad>>, <<JLo>>>>
    /\ \E j \in 1..Len(log) :
         /\ log[j].frame = k /\ log[j].cat = "message"
         /\ log[j].payload.data = "Hello"

\* The poll timers the current request cycle has set.
PollTimersOfCycle == {t \in timers : t.kind = "poll" /\ t.req = xhr}

\* C9: when the request completes with a status in [200,400) and no listener
\* calls close(), a connection that is OPEN stays OPEN, no request is created
\* in that step, and one poll timer is set if pollingInterval > 0 (none if it
\* is 0); a cycle never has more than this one poll timer; and a pending
\* poll timer goes away only by firing, which calls open(), or by close(),
\* so that with a fair timer and no close() the next request is issued.
C9_PollingContinues ==
  [][/\ \A i \in 1..Len(xhrs) :
          (/\ XhrDone(i) /\ i = xhr
           /\ xhrs[i].status >= 200 /\ xhrs[i].status < 400
           /\ status' # "CLOSED")
          => /\ status = "OPEN" => status' = "OPEN"
             /\ Len(xhrs') = Len(xhrs)
             /\ IF options.pollingInterval > 0
                  THEN \E t \in timers' \ timers :
                         /\ t.kind = "poll" /\ pollTimer' = t.id
                         /\ timers' = timers \cup {t}
                  ELSE timers' = timers
     /\ (/\ xhr' > 0 /\ xhrs'[xhr'].readyState = DONE
         /\ xhrs'[xhr'].status >= 200 /\ xhrs'[xhr'].status < 400)
        => Cardinality(PollTimersOfCycle') <= 1
     /\ \A t \in PendingPollTimers :
          t \notin timers' => (Len(xhrs') = Len(xhrs) + 1 \/ status' = "CLOSED")
    ]_vars

\* C11: no task of the connection (a timer's callback, a readiness
\* notification, a transport error, a call of open() or close()) ends by an
\* exception that leaves the connection's code: an exception thrown while
\* the request is issued or by a listener during dispatch is caught.
C11_NoExceptionPropagates == ~uncaught

\* The request this._xhr refers to has delivered a notification with a
\* status in [200,400) and a JSON document as the content kind.
JsonReported ==
  /\ xhr # 0
  /\ xhrs[xhr].readyState \in {LOADING, DONE}
  /\ xhrs[xhr].status >= 200 /\ xhrs[xhr].status < 400
  /\ xhrs[xhr].contentType = "application/json"

\* C12: once a notification has reported a status in [200,400) with a JSON
\* document, the cycle has dispatched no open event and no event of a frame,
\* nothing was given to the frame parser, and status is not OPEN; and when
\* the request is complete, the cycle has dispatched an error event that
\* carries the raw body.
C12_JsonIsError ==
  JsonReported =>
    /\ status # "OPEN"
    /\ processed = <<>>
    /\ \A k \in 1..Len(log) : log[k].cat = "error"
    /\ xhrs[xhr].readyState = DONE
       => \E k \in 1..Len(log) : log[k].payload.message = xhrs[xhr].body

\* C13 as stated: after every step the processed offset is between 0 and
\* the length of the current response text; it does not decrease while
\* this._xhr refers to the same request; and it is 0 after every open().
C13_OffsetWithinText ==
  [][/\ 0 <= lastIndexProcessed' /\ lastIndexProcessed' <= Len(CurrentText')
     /\ xhr' = xhr => lastIndexProcessed' >= lastIndexProcessed
     /\ xhr' # xhr => lastIndexProcessed' = 0
    ]_vars

\* The current request holds a response text: it is in flight, or complete
\* with a status line.  (abort() and a network failure discard the text.)
HoldsResponse ==
  /\ xhr # 0
  /\ \/ xhrs[xhr].readyState \in {OPENED, HEADERS_RECEIVED, LOADING}
     \/ xhrs[xhr].readyState = DONE /\ xhrs[xhr].status # 0

\* C13 amended: the offset is never negative, and it is at most the length
\* of the current response text as long as the transport has not discarded
\* that text (the request was not aborted and did not fail in the network);
\* it does not decrease while this._xhr refers to the same request; and it
\* is 0 after every open().
C13_OffsetWithinHeldText ==
  [][/\ 0 <= lastIndexProcessed'
     /\ HoldsResponse' => lastIndexProcessed' <= Len(CurrentText')
     /\ xhr' = xhr => lastIndexProcessed' >= lastIndexProcessed
     /\ xhr' # xhr => lastIndexProcessed' = 0
    ]_vars

\* C13 witness: in a second request cycle a first frame has been processed
\* and more text has arrived after it.
C13_Witness ==
  /\ xhr = 2 /\ HoldsResponse
  /\ lastIndexProcessed > 0 /\ lastIndexProcessed < Len(CurrentText)

\* C14: when a request-timeout timer fires while the connection's request
\* is LOADING, an error event {type: timeout} and then a close event are
\* dispatched, status is CLOSED, the poll timer is cleared and the request
\* is aborted; when the request is in any other ready state the firing
\* dispatches nothing and changes nothing of the connection.  (A step is
\* the firing of t only if t is a timeout timer that is no longer pending
\* after it.)
C14_TimeoutClosesWhileLoading ==
  [][\A t \in timers :
       (t.kind = "timeout" /\ t \notin timers' /\ TimeoutTimerFire(t)) =>
         IF xhrs[xhr].readyState = LOADING
           THEN /\ status' = "CLOSED"
                /\ log' = log \o
                     <<[cat |-> "error", payload |-> Payload("timeout"),
                        req |-> xhr, frame |-> 0],
                       [cat |-> "close", payload |-> Payload("close"),
                        req |-> xhr, frame |-> 0]>>
                /\ ~xhrs'[xhr].live /\ xhrs'[xhr].readyState = UNSENT
                /\ \A u \in timers' : u.id # pollTimer
           ELSE /\ timers' = timers \ {t}
                /\ UNCHANGED <<status, lineEndingCharacter, lastIndexProcessed,
                               xhr, pollTimer, eventHandlers, options, xhrs,
                               log, processed, calls>>
                /\ ~uncaught'
    ]_vars

\* C14 witness: the timeout timer has fired during LOADING: the last two
\* events of the cycle are the timeout error and the close event.
C14_Witness ==
  /\ status = "CLOSED" /\ Len(log) >= 3
  /\ log[Len(log) - 1].payload.type = "timeout"
  /\ log[Len(log)].cat = "close"
  /\ timers = {}

\* C15: as long as no request has been created and close() has not been
\* called, the connection is as the constructor left it: status CONNECTING,
\* this._xhr null, and exactly one timer pending, the pre-connection timer
\* held in this._pollTimer (for every timeoutBeforeConnection, 0 included);
\* and the first request is created only by the firing of that timer (or
\* by the application calling open() itself), never by another step.
C15_NoRequestAtConstruction ==
  /\ [](xhrs = <<>> /\ status # "CLOSED"
          => /\ status = "CONNECTING" /\ xhr = 0
             /\ Cardinality(timers) = 1
             /\ \A t \in timers : t.kind = "poll" /\ t.id = pollTimer)
  /\ [][xhrs = <<>> /\ xhrs' # <<>>
          => \/ \E t \in timers : t.id = pollTimer /\ PollTimerFire(t)
             \/ UserOpen]_vars

\* C15 witness: the pre-connection timer has fired and issued the first
\* request; no timer is pending.
C15_Witness ==
  /\ Len(xhrs) = 1 /\ xhr = 1 /\ xhrs[1].live
  /\ status = "CONNECTING" /\ timers = {} /\ pollTimer = 1

\* The listener calls of the events from the k-th on when every listener of
\* each event's category is called, in registration order, event by event.
RECURSIVE CallsInOrder(_, _, _)
CallsInOrder(entries, handlers, k) ==
  IF k > Len(entries) THEN <<>>
  ELSE [j \in 1..Len(handlers[entries[k].cat]) |-> <<k, j>>]
       \o CallsInOrder(entries, handlers, k + 1)

\* C16: in a request cycle the open event is the first event and the only
\* one of its category; the events that follow come from frames, frame by
\* frame in the order of the frames; the frames are those of the response
\* text in the order the text holds them; and for each event the listeners
\* of its category are called in registration order, all of them before
\* the next event is dispatched.
C16_DispatchOrder ==
  /\ \A k \in 1..Len(log) :
       IF k = 1 THEN log[k].cat = "open" /\ log[k].frame = 0
       ELSE log[k].cat # "open" /\ log[k].frame \in 1..Len(processed)
  /\ \A j, k \in 1..Len(log) : j < k => log[j].frame <= log[k].frame
  /\ lineEndingCharacter # null
     => EventAndData(processed) =
          EventAndData(_parseSSEMessages(
            SubSeq(CurrentText, 1, lastIndexProcessed), lineEndingCharacter))
  /\ calls = CallsInOrder(log, eventHandlers, 1)

\* C16 witness: two frames have dispatched a message each, and the two
\* message listeners were called for both.
C16_Witness ==
  /\ Len(log) = 3 /\ log[2].cat = "message" /\ log[3].cat = "message"
  /\ log[2].frame = 1 /\ log[3].frame = 2
  /\ calls = <<<<1, 1>>, <<2, 1>>, <<2, 2>>, <<3, 1>>, <<3, 2>>>>

\* The convention of a text by the priority CRLF, LF, CR.
ConventionOf(text) ==
  IF \E p \in 1..(Len(text) - 1) : text[p] = "\r" /\ text[p + 1] = "\n" THEN CRLF
  ELSE IF \E p \in 1..Len(text) : text[p] = "\n" THEN LF
  ELSE IF \E p \in 1..Len(text) : text[p] = "\r" THEN CR
  ELSE null

\* C17: when a notification establishes the connection's line-ending
\* convention, it is the one the response body has by the priority CRLF,
\* LF, CR (CRLF for a body that contains CRLF, LF for an LF-only body, CR
\* for a CR-only body); and an established convention never changes.
C17_ConventionByPriority ==
  [][/\ (lineEndingCharacter = null /\ lineEndingCharacter' # null)
        => lineEndingCharacter' = ConventionOf(xhrs'[xhr'].body)
     /\ lineEndingCharacter # null => lineEndingCharacter' = lineEndingCharacter
    ]_vars

\* The error event that carries the response text, status code and ready
\* state of request x.
ErrorOf(x) ==
  [Payload("error") EXCEPT !.message = x.responseText, !.xhrStatus = x.status,
                           !.xhrState = x.readyState]

\* A notification of request i, or its failure in the network.
Notifies(i) ==
  \/ \E r \in server : XhrHeaders(i, r)
  \/ \E n \in xhrs[i].cuts : XhrProgress(i, n)
  \/ XhrProgressUnreferenced(i)
  \/ XhrDone(i)

\* C18: while status is not CLOSED, a notification of a request that
\* reports (LOADING or DONE) a non-zero status outside [200,400), and a
\* transport error of a request, dispatch an error event carrying that
\* request's response text, status code and ready state and leave status
\* ERROR, without setting a timer or creating a request; and a connection
\* whose request ended that way has no poll timer pending, so that only a
\* call of open() issues the next request.
C18_ErrorStopsPolling ==
  /\ [][\A i \in 1..Len(xhrs) :
          /\ (/\ status # "CLOSED" /\ Notifies(i)
              /\ xhrs'[i].readyState \in {LOADING, DONE}
              /\ xhrs'[i].status # 0
              /\ ~(xhrs'[i].status >= 200 /\ xhrs'[i].status < 400))
             => /\ log' = Append(log, [cat |-> "error", payload |-> ErrorOf(xhrs'[i]),
                                       req |-> i, frame |-> 0])
                /\ status' = "ERROR"
                /\ timers' = timers /\ Len(xhrs') = Len(xhrs)
          /\ (status # "CLOSED" /\ XhrNetworkError(i))
             => /\ log' = Append(log, [cat |-> "error", payload |-> ErrorOf(xhrs'[i]),
                                       req |-> i, frame |-> 0])
                /\ status' = "ERROR"
                /\ timers' = timers /\ Len(xhrs') = Len(xhrs)
       ]_vars
  /\ [](/\ xhr # 0 /\ status = "ERROR"
        /\ xhrs[xhr].readyState = DONE
        /\ ~(xhrs[xhr].status >= 200 /\ xhrs[xhr].status < 400)
        => PendingPollTimers = {})

\* C19: a request-timeout timer set by an earlier request cycle than the
\* current one dispatches nothing and does not close the connection when it
\* fires, whatever the ready state of the current request.
C19_TimeoutOfItsOwnCycle ==
  [][\A t \in timers :
       (TimeoutTimerFire(t) /\ t.req # xhr)
       => log' = log /\ status' = status /\ xhrs' = xhrs
    ]_vars

\* The events a connection with the current listeners and options
\* dispatches for a response that arrives whole, in a single notification
\* of the completed request.
InSingleNotification(response) ==
  LET s0 == open([Cur EXCEPT !.status = "CONNECTING",
                             !.lineEndingCharacter = null,
                             !.xhr = 0, !.xhrs = <<>>, !.timers = {},
                             !.pollTimer = 0])
      s1 == [s0 EXCEPT !.xhrs[1] =
               [@ EXCEPT !.readyState = DONE, !.live = FALSE,
                         !.status = response.status,
                         !.contentType = response.contentType,
                         !.body = response.body,
                         !.responseText = response.body]]
  IN OnReadyStateChange(s1).log

\* C20: once the whole body of the response has been seen (the request is
\* DONE), the events dispatched for it are those dispatched when the body
\* arrives in a single notification, however the body was split across
\* the notifications before.
C20_ChunkingIndependent ==
  (xhr # 0 /\ xhrs[xhr].readyState = DONE)
  => log = InSingleNotification(
             [status |-> xhrs[xhr].status, contentType |-> xhrs[xhr].contentType,
              body |-> xhrs[xhr].body])

====
